---- MODULE Spec2Model ----
(***************************************************************************)
(* Account manager (src/main.py): request validation and the account       *)
(* executors, modelled as state machines over bounded inputs.              *)
(*                                                                         *)
(* Python values are tagged records [t, s, n]: t is the Python type, s the *)
(* characters of a str (a sequence of one-character tokens), n the number  *)
(* of an int or the truth value of a bool.  A Python exception leaving a   *)
(* function is an outcome of kind "raise".                                 *)
(***************************************************************************)
EXTENDS Integers, Sequences, FiniteSets, TLC

VARIABLES
    idFn,       \* SpecIdent: the identifier validator that was called ("none" before)
    idArg,      \* SpecIdent: the value handed to the validator
    idRet,      \* SpecIdent: "pending", "true", "false" or "raise"
    request,    \* the request dictionary under validation / execution
    outcome,    \* SpecValidate: what validate_request did with request
    store,      \* Spec: the rows of the venues, artists and attendees tables
    executor,   \* Spec: the executor that handled the last request ("none" before)
    result,     \* Spec: what that executor returned (or the exception that left it)
    calls,      \* Spec: the store and notification calls made for that request, in order
    response    \* SpecApi: the HTTP answer of the endpoint that handled the request

vars == <<idFn, idArg, idRet, request, outcome, store, executor, result, calls, response>>

execVars == <<store, executor, result, calls, response>>

(***************************************************************************)
(* Characters.  The alphabet holds one or two members of every class the   *)
(* validators tell apart: ASCII digits, ASCII letters, underscore, hyphen, *)
(* another ASCII character, the newline, SUPERSCRIPT TWO (U+00B2, a digit  *)
(* for str.isdigit but no decimal digit) and ARABIC-INDIC DIGIT THREE      *)
(* (U+0663, a non-ASCII decimal digit).                                    *)
(***************************************************************************)
AsciiDigits == {"0", "1", "2", "3", "4", "5", "6", "7", "8", "9"}

AsciiLetters == {"a", "b", "x", "A", "Z"}

Chars == {"0", "7", "a", "Z", "_", "-", "@", "NL", "SUP2", "AR3"}

\* Unicode general category Nd: what str.isdecimal accepts.
UnicodeDecimal(c) == c \in AsciiDigits \cup {"AR3"}

\* str.isdigit per character: Numeric_Type Digit or Decimal.
char_isdigit(c) == c \in AsciiDigits \cup {"AR3", "SUP2"}

\* str.isdigit: false on the empty string, true when every character is a digit.
str_isdigit(s) == Len(s) > 0 /\ \A i \in 1..Len(s) : char_isdigit(s[i])

\* The character class [a-zA-Z0-9-_] of the Spotify pattern.
SpotifyClass(c) == c \in AsciiLetters \cup AsciiDigits \cup {"-", "_"}

\* re.match(r"^[a-zA-Z0-9-_]+$", s): one or more class characters up to the end
\* of the string, where $ also matches just before a final newline.
re_match_spotify(s) ==
    LET body == IF Len(s) > 0 /\ s[Len(s)] = "NL" THEN SubSeq(s, 1, Len(s) - 1) ELSE s
    IN  Len(body) > 0 /\ \A i \in 1..Len(body) : SpotifyClass(body[i])

(***************************************************************************)
(* Python values.                                                          *)
(***************************************************************************)
StrV(s) == [t |-> "str", s |-> s, n |-> 0]
NoneV == [t |-> "none", s |-> <<>>, n |-> 0]
BoolV(b) == [t |-> "bool", s |-> <<>>, n |-> IF b THEN 1 ELSE 0]
IntV(n) == [t |-> "int", s |-> <<>>, n |-> n]

\* Python truthiness of a value.
Truthy(v) ==
    CASE v.t = "str" -> Len(v.s) > 0
      [] v.t = "none" -> FALSE
      [] OTHER -> v.n # 0

\* value == "" in Python.
IsEmptyStr(v) == v.t = "str" /\ v.s = <<>>

(***************************************************************************)
(* Identifier validators.                                                  *)
(***************************************************************************)
AuthIdMinLen == 10
AuthIdMaxLen == 21
SpotifyIdMinLen == 8
SpotifyIdMaxLen == 32

\* identifier.isdigit() raises AttributeError on anything but a str.
is_valid_auth_id_raises(identifier) == identifier.t # "str"

is_valid_auth_id(identifier) ==
    IF ~str_isdigit(identifier.s) THEN FALSE
    ELSE IF ~(AuthIdMinLen <= Len(identifier.s) /\ Len(identifier.s) <= AuthIdMaxLen) THEN FALSE
    ELSE TRUE

\* re.match raises TypeError on anything but a str.
is_valid_spotify_user_id_raises(identifier) == identifier.t # "str"

is_valid_spotify_user_id(identifier) ==
    IF ~re_match_spotify(identifier.s) THEN FALSE
    ELSE IF ~(SpotifyIdMinLen <= Len(identifier.s) /\ Len(identifier.s) <= SpotifyIdMaxLen) THEN FALSE
    ELSE TRUE

(***************************************************************************)
(* Schema for request validation.                                          *)
(***************************************************************************)
object_types == <<"venue", "artist", "attendee", "event", "ticket">>

Range(s) == {s[i] : i \in DOMAIN s}

non_account_types == {"event", "ticket"}

account_types == Range(object_types) \ non_account_types

\* attributes_schema.get(object_type, []): the columns of the type's table.
attributes_schema(object_type) ==
    CASE object_type = "venue" ->
            <<"user_id", "venue_name", "email", "street_address", "city", "postcode",
              "bio", "status">>
      [] object_type = "artist" ->
            <<"user_id", "artist_name", "email", "street_address", "city", "postcode",
              "genres", "spotify_artist_id", "bio", "status">>
      [] object_type = "attendee" ->
            <<"user_id", "first_name", "last_name", "email", "street_address", "city",
              "postcode", "bio", "status">>
      [] object_type = "event" ->
            <<"event_id", "venue_id", "event_name", "date_time", "total_tickets",
              "sold_tickets", "artist_ids", "status">>
      [] object_type = "ticket" ->
            <<"ticket_id", "event_id", "attendee_id", "price", "redeemed", "status">>
      [] OTHER -> <<>>

\* The full field set of a type, and the fields a create request must give:
\* every column but spotify_artist_id, bio and status.
AllFields(ot) == Range(attributes_schema(ot))

RequiredFields(ot) == AllFields(ot) \ {"spotify_artist_id", "bio", "status"}

(***************************************************************************)
(* Requests.  A request is [function, object_type, identifier, attributes];*)
(* a key the JSON body lacks holds Absent (request.get gives None for it). *)
(* attributes is [shape, items]: shape "dict" with items a sequence of     *)
(* [k, v] pairs in insertion order, shape "list" with items a sequence of  *)
(* names, or shape "absent" / "none" with no items.                        *)
(***************************************************************************)
Absent == "<absent>"

AbsentAttrs == [shape |-> "absent", items |-> <<>>]
NoneAttrs == [shape |-> "none", items |-> <<>>]
DictAttrs(items) == [shape |-> "dict", items |-> items]
ListAttrs(names) == [shape |-> "list", items |-> names]

Keys(d) == {d[i].k : i \in DOMAIN d}

HasKey(d, key) == key \in Keys(d)

\* d.get(key): the value under key, None when the key is missing.
DictGet(d, key) ==
    IF HasKey(d, key) THEN d[CHOOSE i \in DOMAIN d : d[i].k = key].v ELSE NoneV

\* Validation outcomes: the (bool, str) pair a validator returns, the message
\* split into its fixed text and the names interpolated into it; or the
\* exception that left the validator.
Accept(msg) == [kind |-> "ok", msg |-> msg, names |-> {}]
Reject(msg, names) == [kind |-> "reject", msg |-> msg, names |-> names]
Raise(exc) == [kind |-> "raise", msg |-> exc, names |-> {}]

(***************************************************************************)
(* Attribute reconciliation.                                               *)
(***************************************************************************)
\* attributes.items() raises AttributeError unless attributes is a dict; an
\* absent key defaults to {}.
extract_and_prepare_attributes_raises(req) == req.attributes.shape \in {"list", "none"}

\* (object_type, {k: v for k, v in attributes.items() if k}): pairs whose key is
\* the empty string are dropped, every other pair is kept, user_id included.
extract_and_prepare_attributes(req) ==
    [object_type |-> req.object_type,
     validation_attributes |->
        IF req.attributes.shape = "dict"
        THEN SelectSeq(req.attributes.items, LAMBDA p : p.k # "")
        ELSE <<>>]

\* Keys of the mapping whose value == "".
empty_value_attributes(validation_attributes) ==
    {validation_attributes[i].k : i \in {j \in DOMAIN validation_attributes :
                                            IsEmptyStr(validation_attributes[j].v)}}

\* Mutant of check_for_extra_attributes: empty values are let through.
check_for_extra_attributes_keys_only(validation_attributes, object_type) ==
    LET total_attributes == Range(attributes_schema(object_type))
        undefined_attributes == Keys(validation_attributes) \ total_attributes
    IN  IF undefined_attributes # {}
        THEN Reject("Additional, undefined attributes cannot be specified: {names}. ",
                    undefined_attributes)
        ELSE Accept("")

\* Mutant of check_for_extra_attributes: a type without a schema entry has no
\* field that could be extra.
check_for_extra_attributes_permissive(validation_attributes, object_type) ==
    LET total_attributes == Range(attributes_schema(object_type))
        undefined_attributes == Keys(validation_attributes) \ total_attributes
    IN  IF total_attributes # {} /\ undefined_attributes # {}
        THEN Reject("Additional, undefined attributes cannot be specified: {names}. ",
                    undefined_attributes)
        ELSE IF empty_value_attributes(validation_attributes) # {}
        THEN Reject("Cannot specify attributes with empty values: {names}.",
                    empty_value_attributes(validation_attributes))
        ELSE Accept("")

check_for_extra_attributes(validation_attributes, object_type) ==
    LET total_attributes == Range(attributes_schema(object_type))
        undefined_attributes == Keys(validation_attributes) \ total_attributes
    IN  IF undefined_attributes # {}
        THEN Reject("Additional, undefined attributes cannot be specified: {names}. ",
                    undefined_attributes)
        ELSE IF empty_value_attributes(validation_attributes) # {}
        THEN Reject("Cannot specify attributes with empty values: {names}.",
                    empty_value_attributes(validation_attributes))
        ELSE Accept("")

\* Mutant of check_required_attributes: status is taken for a required field.
check_required_attributes_status(validation_attributes, object_type) ==
    LET total_attributes == Range(attributes_schema(object_type))
        required_attributes == total_attributes \ {"spotify_artist_id", "bio"}
        undefined_attributes == Keys(validation_attributes) \ total_attributes
        missing_attributes == required_attributes \ Keys(validation_attributes)
    IN  IF undefined_attributes # {}
        THEN Reject("Additional, undefined attributes cannot be specified: {names}.",
                    undefined_attributes)
        ELSE IF missing_attributes # {}
        THEN Reject("Missing required attributes: {names}.", missing_attributes)
        ELSE IF empty_value_attributes(validation_attributes) # {}
        THEN Reject("Cannot specify attributes with empty values: {names}.",
                    empty_value_attributes(validation_attributes))
        ELSE Accept("")

\* Mutant of check_required_attributes: fails fast, naming one missing field.
check_required_attributes_first(validation_attributes, object_type) ==
    LET total_attributes == Range(attributes_schema(object_type))
        required_attributes == total_attributes \ {"spotify_artist_id", "bio", "status"}
        undefined_attributes == Keys(validation_attributes) \ total_attributes
        missing_attributes == required_attributes \ Keys(validation_attributes)
    IN  IF undefined_attributes # {}
        THEN Reject("Additional, undefined attributes cannot be specified: {names}.",
                    undefined_attributes)
        ELSE IF missing_attributes # {}
        THEN Reject("Missing required attributes: {names}.",
                    {CHOOSE m \in missing_attributes : TRUE})
        ELSE IF empty_value_attributes(validation_attributes) # {}
        THEN Reject("Cannot specify attributes with empty values: {names}.",
                    empty_value_attributes(validation_attributes))
        ELSE Accept("")

check_required_attributes(validation_attributes, object_type) ==
    LET total_attributes == Range(attributes_schema(object_type))
        required_attributes == total_attributes \ {"spotify_artist_id", "bio", "status"}
        undefined_attributes == Keys(validation_attributes) \ total_attributes
        missing_attributes == required_attributes \ Keys(validation_attributes)
    IN  IF undefined_attributes # {}
        THEN Reject("Additional, undefined attributes cannot be specified: {names}.",
                    undefined_attributes)
        ELSE IF missing_attributes # {}
        THEN Reject("Missing required attributes: {names}.", missing_attributes)
        ELSE IF empty_value_attributes(validation_attributes) # {}
        THEN Reject("Cannot specify attributes with empty values: {names}.",
                    empty_value_attributes(validation_attributes))
        ELSE Accept("")

(***************************************************************************)
(* The operation-specific validators.                                      *)
(***************************************************************************)
RECURSIVE DedupNames(_, _)
\* The keys of {attr: True for attr in attributes}, in first-occurrence order.
DedupNames(names, seen) ==
    IF names = <<>> THEN <<>>
    ELSE IF Head(names) \in seen THEN DedupNames(Tail(names), seen)
    ELSE <<Head(names)>> \o DedupNames(Tail(names), seen \cup {Head(names)})

\* attributes defaults to []; a list becomes the mapping of each name to True,
\* anything else is passed on as it is (None stays None).
extract_and_prepare_attributes_for_get(req) ==
    [object_type |-> req.object_type,
     queried_attributes |->
        IF req.attributes.shape \in {"list", "absent"}
        THEN LET names == DedupNames(req.attributes.items, {})
             IN  DictAttrs([i \in DOMAIN names |-> [k |-> names[i], v |-> BoolV(TRUE)]])
        ELSE req.attributes]

\* The first (attr, value) pair, in the mapping's order, that the loop rejects;
\* 0 when the loop runs to its end.
FirstRejected(items, valid_attributes) ==
    LET bad == {i \in DOMAIN items : items[i].k \notin valid_attributes \/ ~Truthy(items[i].v)}
    IN  IF bad = {} THEN 0 ELSE CHOOSE i \in bad : \A j \in bad : i <= j

\* Mutant of validate_queried_attributes: a false flag only excludes the field.
validate_queried_attributes_flags(queried_attributes, object_type) ==
    LET valid_attributes == Range(attributes_schema(object_type))
        items == queried_attributes.items
        outside == {i \in DOMAIN items : items[i].k \notin valid_attributes}
    IN  IF object_type \in non_account_types
        THEN Reject("Management of {object_type}s is handled by a separate API.", {object_type})
        ELSE IF object_type \notin account_types
        THEN Reject("Invalid object type. Must be one of ['venue', 'artist', 'attendee'].", {})
        ELSE IF items = <<>>
        THEN Reject("At least one valid attribute must be queried.", {})
        ELSE IF outside = {} THEN Accept("")
        ELSE Reject("Invalid attribute '{attr}' for object_type '{object_type}'.",
                    {items[CHOOSE i \in outside : \A j \in outside : i <= j].k})

validate_queried_attributes(queried_attributes, object_type) ==
    LET valid_attributes == Range(attributes_schema(object_type))
        items == queried_attributes.items
        first == FirstRejected(items, valid_attributes)
    IN  IF object_type \in non_account_types
        THEN Reject("Management of {object_type}s is handled by a separate API.", {object_type})
        ELSE IF object_type \notin account_types
        THEN Reject("Invalid object type. Must be one of ['venue', 'artist', 'attendee'].", {})
        ELSE IF items = <<>>
        THEN Reject("At least one valid attribute must be queried.", {})
        ELSE IF first = 0 THEN Accept("")
        ELSE IF items[first].k \notin valid_attributes
        THEN Reject("Invalid attribute '{attr}' for object_type '{object_type}'.",
                    {items[first].k})
        ELSE Reject("At least one valid attribute must be queried with a true value.", {})

validate_get_request(req) ==
    LET queried_attributes == extract_and_prepare_attributes_for_get(req).queried_attributes
        object_type == req.object_type
        checked == validate_queried_attributes(queried_attributes, object_type)
    IN  IF queried_attributes.items = <<>>
        THEN Reject("Attributes must be provided for querying.", {})
        ELSE IF checked.kind # "ok" THEN checked
        ELSE Accept("Request is valid.")

validate_create_request(req) ==
    LET validation_attributes == extract_and_prepare_attributes(req).validation_attributes
        object_type == req.object_type
        checked == check_required_attributes(validation_attributes, object_type)
        spotify_artist_id == DictGet(validation_attributes, "spotify_artist_id")
    IN  IF extract_and_prepare_attributes_raises(req) THEN Raise("AttributeError")
        ELSE IF checked.kind # "ok" THEN checked
        ELSE IF Truthy(spotify_artist_id) /\ is_valid_spotify_user_id_raises(spotify_artist_id)
        THEN Raise("TypeError")
        ELSE IF Truthy(spotify_artist_id) /\ ~is_valid_spotify_user_id(spotify_artist_id)
        THEN Reject("Invalid Spotify User ID -- field requires only the string of characters following https://open.spotify.com/artist/", {})
        ELSE IF \E i \in DOMAIN validation_attributes : IsEmptyStr(validation_attributes[i].v)
        THEN Reject("Every specified attribute must have a value.", {})
        ELSE Accept("Request is valid.")

\* Mutant of validate_update_request: an update must cover the required fields.
validate_update_request_required(req) ==
    LET validation_attributes == extract_and_prepare_attributes(req).validation_attributes
        object_type == req.object_type
        checked == check_required_attributes(validation_attributes, object_type)
    IN  IF extract_and_prepare_attributes_raises(req) THEN Raise("AttributeError")
        ELSE IF validation_attributes = <<>>
        THEN Reject("At least one attribute must be specified for update.", {})
        ELSE IF checked.kind # "ok" THEN checked
        ELSE Accept("Request is valid.")

validate_update_request(req) ==
    LET validation_attributes == extract_and_prepare_attributes(req).validation_attributes
        object_type == req.object_type
        checked == check_for_extra_attributes(validation_attributes, object_type)
    IN  IF extract_and_prepare_attributes_raises(req) THEN Raise("AttributeError")
        ELSE IF validation_attributes = <<>>
        THEN Reject("At least one attribute must be specified for update.", {})
        ELSE IF checked.kind # "ok" THEN checked
        ELSE Accept("Request is valid.")

\* Mutant of validate_delete_request: the attributes are checked as on update.
validate_delete_request_attributes(req) ==
    LET validation_attributes == extract_and_prepare_attributes(req).validation_attributes
        checked == check_for_extra_attributes(validation_attributes, req.object_type)
    IN  IF extract_and_prepare_attributes_raises(req) THEN Raise("AttributeError")
        ELSE IF checked.kind # "ok" THEN checked
        ELSE Accept("Request is valid.")

\* Placeholder for additional verification logic.
validate_delete_request(req) ==
    Accept("Request is valid.")

(***************************************************************************)
(* The dispatcher.                                                         *)
(***************************************************************************)
\* request.get("identifier"): None when the key is missing.
IdentifierOf(req) == req.identifier

\* Mutant of validate_request: event and ticket are not told apart from an
\* unknown type.
validate_request_one_type_gate(req) ==
    LET function == req.function
        object_type == req.object_type
        identifier == IdentifierOf(req)
    IN  IF function \notin {"get", "create", "update", "delete"}
        THEN Reject("Invalid function specified.", {})
        ELSE IF object_type \notin account_types
        THEN Reject("Invalid object type. Must be one of ['venue', 'artist', 'attendee'].", {})
        ELSE IF is_valid_auth_id_raises(identifier) THEN Raise("AttributeError")
        ELSE IF ~is_valid_auth_id(identifier)
        THEN Reject("Invalid or missing unique ID.", {})
        ELSE IF function = "get" THEN validate_get_request(req)
        ELSE IF function = "create" THEN validate_create_request(req)
        ELSE IF function = "update" THEN validate_update_request(req)
        ELSE validate_delete_request(req)

validate_request(req) ==
    LET function == req.function
        object_type == req.object_type
        identifier == IdentifierOf(req)
    IN  IF function \notin {"get", "create", "update", "delete"}
        THEN Reject("Invalid function specified.", {})
        ELSE IF object_type \in non_account_types
        THEN Reject("Management of {object_type}s is handled by a separate API.", {object_type})
        ELSE IF object_type \notin account_types
        THEN Reject("Invalid object type. Must be one of ['venue', 'artist', 'attendee'].", {})
        ELSE IF is_valid_auth_id_raises(identifier) THEN Raise("AttributeError")
        ELSE IF ~is_valid_auth_id(identifier)
        THEN Reject("Invalid or missing unique ID.", {})
        ELSE IF function = "get" THEN validate_get_request(req)
        ELSE IF function = "create" THEN validate_create_request(req)
        ELSE IF function = "update" THEN validate_update_request(req)
        ELSE validate_delete_request(req)

(***************************************************************************)
(* SpecIdent: the two validators applied to bounded inputs.  A string is   *)
(* an optional head character, a run of one fill character and an optional *)
(* tail character, so that every length around both ranges and every       *)
(* character class at the start and at the end of a string occurs.         *)
(***************************************************************************)
MaxFill == 33

Run(c, k) == [i \in 1..k |-> c]

Opt1 == {<<>>} \cup {<<c>> : c \in Chars}

IdStrings == {h \o Run(c, k) \o tl : h \in Opt1, c \in {"7", "a"}, k \in 0..MaxFill, tl \in Opt1}

\* What a JSON body can put where a string is expected.
NonStrings == {NoneV, IntV(1234567890), BoolV(TRUE)}

IdInputs == {StrV(s) : s \in IdStrings} \cup NonStrings

RetOf(raises, value) == IF raises THEN "raise" ELSE IF value THEN "true" ELSE "false"

ValidatorDefaults == idFn = "none" /\ idArg = NoneV /\ idRet = "pending"

RequestDefaults == request = [fn |-> "none"] /\ outcome = [kind |-> "pending"]

ExecDefaults ==
    /\ store = [ot \in {"venue", "artist", "attendee"} |-> {}]
    /\ executor = "none"
    /\ result = [kind |-> "pending"]
    /\ calls = <<>>
    /\ response = [status |-> 0, key |-> "none", msg |-> "", names |-> {}]

InitIdent ==
    /\ idFn = "none"
    /\ idArg \in IdInputs
    /\ idRet = "pending"
    /\ RequestDefaults
    /\ ExecDefaults

CallIsValidAuthId ==
    /\ idFn = "none"
    /\ idFn' = "is_valid_auth_id"
    /\ idRet' = RetOf(is_valid_auth_id_raises(idArg), is_valid_auth_id(idArg))
    /\ UNCHANGED <<idArg, request, outcome>>
    /\ UNCHANGED execVars

CallIsValidSpotifyUserId ==
    /\ idFn = "none"
    /\ idFn' = "is_valid_spotify_user_id"
    /\ idRet' = RetOf(is_valid_spotify_user_id_raises(idArg), is_valid_spotify_user_id(idArg))
    /\ UNCHANGED <<idArg, request, outcome>>
    /\ UNCHANGED execVars

NextIdent == CallIsValidAuthId \/ CallIsValidSpotifyUserId

SpecIdent == InitIdent /\ [][NextIdent]_vars

(***************************************************************************)
(* SpecValidate: validate_request applied to bounded requests.             *)
(*                                                                         *)
(* An attribute mapping is built from the type's schema: the required      *)
(* fields but a window of at most MaxMissing of them (or none of them),    *)
(* any set of the optional fields, and a sequence of keys outside the      *)
(* schema; schema order or reversed.  Every key holds an ordinary value,   *)
(* but the selected keys (the first, the last, both, or spotify_artist_id) *)
(* may hold a special value.                                               *)
(***************************************************************************)
MaxMissing == 2

Reverse(s) == [i \in DOMAIN s |-> s[Len(s) + 1 - i]]

ValidAuthId == StrV(Run("7", AuthIdMinLen))

ValidSpotifyId == StrV(Run("a", SpotifyIdMinLen))

Functions == {"get", "create", "update", "delete"}

FunctionInputs == Functions \cup {"remove", Absent}

ObjectTypeInputs == Range(object_types) \cup {"nonexistent", Absent}

IdentifierInputs ==
    {ValidAuthId, StrV(Run("7", AuthIdMinLen - 1)), StrV(<<>>),
     StrV(Run("7", AuthIdMinLen) \o <<"@">>), NoneV, IntV(1234567890)}

\* The required fields of the type in schema order.
RequiredSeq(ot) == SelectSeq(attributes_schema(ot), LAMBDA f : f \in RequiredFields(ot))

OptionalFields(ot) == AllFields(ot) \ RequiredFields(ot)

MissingSets(ot) ==
    {{RequiredSeq(ot)[j] : j \in {m \in DOMAIN RequiredSeq(ot) : i <= m /\ m < i + n}} :
        i \in 1..Len(RequiredSeq(ot)), n \in 0..MaxMissing}
    \cup {RequiredFields(ot)}

ExtraKeySeqs ==
    {<<>>, <<"">>, <<"extra_field">>, <<"extra_field", "username">>, <<"", "extra_field">>}

KeySeqs(ot) ==
    {SelectSeq(attributes_schema(ot),
               LAMBDA f : (f \in RequiredFields(ot) /\ f \notin miss) \/ f \in opt) \o ext :
        miss \in MissingSets(ot), opt \in SUBSET OptionalFields(ot), ext \in ExtraKeySeqs}

OrdinaryValue(function, key) ==
    IF function = "get" THEN BoolV(TRUE)
    ELSE IF key = "spotify_artist_id" THEN ValidSpotifyId
    ELSE StrV(<<"x">>)

SpotifyValues ==
    {StrV(<<>>), NoneV, BoolV(FALSE), IntV(7),
     StrV(Run("a", SpotifyIdMinLen - 1)),
     StrV(Run("a", SpotifyIdMinLen - 1) \o <<"NL">>),
     StrV(Run("a", SpotifyIdMinLen) \o <<"@">>),
     StrV(Run("a", SpotifyIdMaxLen))}

EdgeValues == {StrV(<<>>), NoneV, BoolV(FALSE)}

\* The (selector, value) choices of the one special value.
Specials ==
    {<<"none", NoneV>>}
    \cup {<<"spotify_artist_id", v>> : v \in SpotifyValues}
    \cup {<<sel, v>> : sel \in {"first", "last"}, v \in EdgeValues}
    \cup {<<"ends", StrV(<<>>)>>}

Selected(keys, i, sel) ==
    \/ sel = "first" /\ i = 1
    \/ sel = "last" /\ i = Len(keys)
    \/ sel = "ends" /\ i \in {1, Len(keys)}
    \/ sel = keys[i] /\ sel = "spotify_artist_id"

MakeDict(function, keys, special) ==
    [i \in DOMAIN keys |->
        [k |-> keys[i],
         v |-> IF Selected(keys, i, special[1]) THEN special[2]
               ELSE OrdinaryValue(function, keys[i])]]

ListInputs == {<<>>, <<"email">>, <<"email", "city", "email">>, <<"email", "extra_field">>}

\* A few attribute values for the requests whose envelope is not valid.
EnvelopeAttributeInputs ==
    {AbsentAttrs, DictAttrs(<<>>), DictAttrs(<<[k |-> "email", v |-> BoolV(TRUE)]>>),
     DictAttrs(<<[k |-> "extra_field", v |-> StrV(<<>>)]>>)}

Request(f, ot, id, a) == [function |-> f, object_type |-> ot, identifier |-> id, attributes |-> a]

\* A request with a valid envelope and a mapping built from the schema.
IsMappingRequest(req) ==
    \E f \in {"get", "create", "update"}, ot \in account_types :
        \E keys \in KeySeqs(ot), special \in Specials,
           rev \in IF f = "get" THEN BOOLEAN ELSE {FALSE} :
            req = Request(f, ot, ValidAuthId,
                          DictAttrs(MakeDict(f, IF rev THEN Reverse(keys) ELSE keys, special)))

\* A request with a valid envelope whose attributes are no mapping.
IsShapeRequest(req) ==
    \E f \in Functions, ot \in account_types :
        \E a \in {AbsentAttrs, NoneAttrs} \cup {ListAttrs(names) : names \in ListInputs} :
            req = Request(f, ot, ValidAuthId, a)

\* Any envelope, with one of a few attribute values.
IsEnvelopeRequest(req) ==
    \E f \in FunctionInputs, ot \in ObjectTypeInputs, id \in IdentifierInputs,
       a \in EnvelopeAttributeInputs :
        req = Request(f, ot, id, a)

InitValidate ==
    /\ ValidatorDefaults
    /\ \/ IsMappingRequest(request)
       \/ IsShapeRequest(request)
       \/ IsEnvelopeRequest(request)
    /\ outcome = [kind |-> "pending"]
    /\ ExecDefaults

CallValidateRequest ==
    /\ outcome.kind = "pending"
    /\ request # [fn |-> "none"]
    /\ outcome' = validate_request(request)
    /\ UNCHANGED <<idFn, idArg, idRet, request>>
    /\ UNCHANGED execVars

NextValidate == CallValidateRequest

SpecValidate == InitValidate /\ [][NextValidate]_vars

(***************************************************************************)
(* SpecReconcile: the attribute extraction and the two schema checks, each *)
(* applied on its own to a request whose object type may have no schema    *)
(* entry and whose mapping is any ordered selection of a few keys.         *)
(***************************************************************************)
ReconcileTypes == {"venue", "artist", "nonexistent", Absent}

ReconcileKeys == <<"user_id", "email", "", "field">>

ReconcileValues == {StrV(<<"x">>), StrV(<<>>), NoneV}

\* The mappings whose keys are the keys picked, in order.
ReconcileMappings ==
    UNION {LET keys == SelectSeq(ReconcileKeys, LAMBDA k : k \in picked)
           IN  {[i \in DOMAIN keys |-> [k |-> keys[i], v |-> vals[i]]] :
                    vals \in [DOMAIN keys -> ReconcileValues]} :
           picked \in SUBSET Range(ReconcileKeys)}

IsReconcileRequest(req) ==
    \E ot \in ReconcileTypes :
        \/ \E items \in ReconcileMappings : req = Request("create", ot, ValidAuthId, DictAttrs(items))
        \/ \E a \in {AbsentAttrs, NoneAttrs, ListAttrs(<<"email">>)} :
                req = Request("create", ot, ValidAuthId, a)

InitReconcile ==
    /\ ValidatorDefaults
    /\ IsReconcileRequest(request)
    /\ outcome = [kind |-> "pending"]
    /\ ExecDefaults

\* The pair the extraction returns, or the exception it raises.
Extracted(req) ==
    IF extract_and_prepare_attributes_raises(req) THEN Raise("AttributeError")
    ELSE [kind |-> "ok",
          object_type |-> extract_and_prepare_attributes(req).object_type,
          validation_attributes |-> extract_and_prepare_attributes(req).validation_attributes]

CallExtractAndPrepareAttributes ==
    /\ idFn = "none"
    /\ idFn' = "extract_and_prepare_attributes"
    /\ outcome' = Extracted(request)
    /\ UNCHANGED <<idArg, idRet, request>>
    /\ UNCHANGED execVars

CallCheckForExtraAttributes ==
    /\ idFn = "none"
    /\ request.attributes.shape = "dict"
    /\ idFn' = "check_for_extra_attributes"
    /\ outcome' = check_for_extra_attributes(request.attributes.items, request.object_type)
    /\ UNCHANGED <<idArg, idRet, request>>
    /\ UNCHANGED execVars

CallCheckRequiredAttributes ==
    /\ idFn = "none"
    /\ request.attributes.shape = "dict"
    /\ idFn' = "check_required_attributes"
    /\ outcome' = check_required_attributes(request.attributes.items, request.object_type)
    /\ UNCHANGED <<idArg, idRet, request>>
    /\ UNCHANGED execVars

NextReconcile ==
    \/ CallExtractAndPrepareAttributes
    \/ CallCheckForExtraAttributes
    \/ CallCheckRequiredAttributes

SpecReconcile == InitReconcile /\ [][NextReconcile]_vars

(***************************************************************************)
(* The persistence and notification collaborators.  A table is the set of  *)
(* its rows, a row a function from the table's columns to values (None for *)
(* a column never written); user_id is the key the executors filter on.    *)
(* How a call ends is the collaborator's choice: it answers, or it raises. *)
(***************************************************************************)
Row(ot, data) == [c \in AllFields(ot) |-> DictGet(data, c)]

NoRow == [c \in {} |-> NoneV]

\* .eq("user_id", identifier)
Matching(st, ot, identifier) == {r \in st[ot] : r["user_id"] = identifier}

\* A call as the collaborator saw it, and how it ended: the rows it answered
\* with, or none.
Call(svc, op, table, data, arg, how, rows) ==
    [svc |-> svc, op |-> op, table |-> table, data |-> data, arg |-> arg,
     how |-> how, rows |-> rows]

\* The ways an insert can end: the row is stored and returned (its columns
\* must exist and its user_id be new), an error value comes back, nothing
\* comes back, or the client raises.
InsertOutcomes(st, ot, data) ==
    {"error", "empty", "exception"}
    \cup IF Keys(data) \subseteq AllFields(ot) /\ Matching(st, ot, DictGet(data, "user_id")) = {}
         THEN {"ok"} ELSE {}

StoreInsert(st, ot, data, how) ==
    IF how = "ok"
    THEN [store |-> [st EXCEPT ![ot] = @ \cup {Row(ot, data)}], rows |-> {Row(ot, data)}]
    ELSE [store |-> st, rows |-> {}]

\* The ways an update can end: the matching rows are patched and returned
\* (the patch's columns must exist), or the client raises.  What the store
\* answers is its own business: it may answer with the rows as they were,
\* the patch not applied ("stale"), or with rows that hold the key column
\* only ("bare").
UpdateOutcomes(st, ot, patch, identifier) ==
    {"exception"}
    \cup (IF Keys(patch) \subseteq AllFields(ot) THEN {"ok"} ELSE {})
    \cup (IF Keys(patch) \subseteq AllFields(ot) /\ Matching(st, ot, identifier) # {}
          THEN {"stale", "bare"} ELSE {})

Patched(ot, row, patch) ==
    [c \in AllFields(ot) |-> IF HasKey(patch, c) THEN DictGet(patch, c) ELSE row[c]]

StoreUpdate(st, ot, patch, identifier, how) ==
    LET hit == Matching(st, ot, identifier)
        new == {Patched(ot, r, patch) : r \in hit}
    IN  CASE how = "ok" -> [store |-> [st EXCEPT ![ot] = (@ \ hit) \cup new], rows |-> new]
          [] how = "stale" -> [store |-> st, rows |-> hit]
          [] how = "bare" ->
                [store |-> [st EXCEPT ![ot] = (@ \ hit) \cup new],
                 rows |-> {[c \in {"user_id"} |-> r[c]] : r \in new}]
          [] OTHER -> [store |-> st, rows |-> {}]

\* The rows a select returns, projected on the columns asked for.
StoreSelect(st, ot, columns, identifier) ==
    {[c \in columns |-> r[c]] : r \in Matching(st, ot, identifier)}

\* rpc("check_account_exists"): the accounts of any table under the id.
CheckAccountExists(st, google_auth_id) ==
    {ot \in DOMAIN st : Matching(st, ot, google_auth_id) # {}}

(***************************************************************************)
(* Operation executors.  Each takes the request, the store and the way the *)
(* collaborators' calls end, and gives the store after the request, the    *)
(* value returned (or the exception raised) and the calls it made.         *)
(***************************************************************************)
Returned(value, msg, names, data) ==
    [kind |-> "return", value |-> value, msg |-> msg, names |-> names, data |-> data]

Raised(exc) == [kind |-> "raise", value |-> NoneV, msg |-> exc, names |-> {}, data |-> NoRow]

\* The dictionary {"error": message} of get_account_info and check_email_in_use.
ErrorV == [t |-> "error", s |-> <<>>, n |-> 0]

\* A dictionary without an "error" key.
InfoV == [t |-> "info", s |-> <<>>, n |-> 0]

Done(st, res, cs) == [store |-> st, result |-> res, calls |-> cs]

check_email_in_use(google_auth_id, st, storeHow) ==
    LET found == IF storeHow = "ok" THEN CheckAccountExists(st, google_auth_id) ELSE {}
        call == Call("store", "rpc", "check_account_exists", <<>>, google_auth_id,
                     storeHow, found)
    IN  IF is_valid_auth_id_raises(google_auth_id)
        THEN Done(st, Returned(ErrorV, "An error occurred: {e}", {"AttributeError"}, NoRow), <<>>)
        ELSE IF ~is_valid_auth_id(google_auth_id)
        THEN Done(st, Returned(ErrorV, "Invalid Google Authentication ID format.", {}, NoRow), <<>>)
        ELSE IF storeHow = "exception"
        THEN Done(st, Returned(ErrorV, "An error occurred: {e}", {"store"}, NoRow), <<call>>)
        ELSE IF found # {}
        THEN Done(st, Returned(InfoV, "Account exists.", found, NoRow), <<call>>)
        ELSE Done(st, Returned(InfoV, "Account does not exist.", {}, NoRow), <<call>>)

\* attributes.items() of request.get("attributes", {}) raises on a list.
attributes_to_fetch(req) ==
    {req.attributes.items[i].k : i \in {j \in DOMAIN req.attributes.items :
                                            Truthy(req.attributes.items[j].v)}}

\* Mutant of get_account_info: rows whose status is 'Inactive' are not reported.
get_account_info_active_only(req, st, storeHow) ==
    LET valid == validate_request(req)
        rows == IF storeHow = "ok"
                THEN {[c \in attributes_to_fetch(req) |-> r[c]] :
                        r \in {m \in Matching(st, req.object_type, req.identifier) :
                                 m["status"] # StrV(<<"I", "n", "a", "c", "t", "i", "v", "e">>)}}
                ELSE {}
        call == Call("store", "select", req.object_type,
                     SelectSeq(req.attributes.items, LAMBDA p : Truthy(p.v)), req.identifier,
                     storeHow, rows)
    IN  IF valid.kind = "raise" THEN Done(st, Raised(valid.msg), <<>>)
        ELSE IF valid.kind # "ok"
        THEN Done(st, Returned(ErrorV, valid.msg, valid.names, NoRow), <<>>)
        ELSE IF req.attributes.shape # "dict" THEN Done(st, Raised("AttributeError"), <<>>)
        ELSE IF storeHow = "exception"
        THEN Done(st, Returned(ErrorV, "An API error occurred: {e}", {"store"}, NoRow), <<call>>)
        ELSE IF rows # {}
        THEN Done(st, Returned(InfoV, "Email is registered with user", {},
                               CHOOSE r \in rows : TRUE), <<call>>)
        ELSE Done(st, Returned(InfoV, "Email is not in use.", {}, NoRow), <<call>>)

get_account_info(req, st, storeHow) ==
    LET valid == validate_request(req)
        account_type == req.object_type
        user_id == req.identifier
        rows == IF storeHow = "ok"
                THEN StoreSelect(st, account_type, attributes_to_fetch(req), user_id)
                ELSE {}
        call == Call("store", "select", account_type,
                     SelectSeq(req.attributes.items, LAMBDA p : Truthy(p.v)), user_id,
                     storeHow, rows)
    IN  IF valid.kind = "raise" THEN Done(st, Raised(valid.msg), <<>>)
        ELSE IF valid.kind # "ok"
        THEN Done(st, Returned(ErrorV, valid.msg, valid.names, NoRow), <<>>)
        ELSE IF req.attributes.shape # "dict" THEN Done(st, Raised("AttributeError"), <<>>)
        ELSE IF storeHow = "exception"
        THEN Done(st, Returned(ErrorV, "An API error occurred: {e}", {"store"}, NoRow), <<call>>)
        ELSE IF rows # {}
        THEN Done(st, Returned(InfoV, "Email is registered with user", {},
                               CHOOSE r \in rows : TRUE), <<call>>)
        ELSE Done(st, Returned(InfoV, "Email is not in use.", {}, NoRow), <<call>>)

\* A create_account that writes before it validates.
create_account_insert_first(req, st, storeHow, mailHow) ==
    LET valid == validate_request(req)
        insert == Call("store", "insert", req.object_type, req.attributes.items, NoneV,
                       storeHow, {})
    IN  IF valid.kind = "raise" THEN Done(st, Raised(valid.msg), <<insert>>)
        ELSE Done(st, Returned(NoneV, valid.msg, valid.names, NoRow), <<insert>>)

\* Mutant of create_account: the welcome mail is sent whatever the insert
\* answered.
create_account_mail_always(req, st, storeHow, mailHow) ==
    LET valid == validate_request(req)
        inserted == StoreInsert(st, req.object_type, req.attributes.items, storeHow)
        insert == Call("store", "insert", req.object_type, req.attributes.items, NoneV,
                       storeHow, inserted.rows)
        mail == Call("mail", "send", "", <<>>, DictGet(req.attributes.items, "email"), mailHow, {})
    IN  IF valid.kind = "raise" THEN Done(st, Raised(valid.msg), <<>>)
        ELSE IF valid.kind # "ok"
        THEN Done(st, Returned(NoneV, valid.msg, valid.names, NoRow), <<>>)
        ELSE IF storeHow = "exception"
        THEN Done(st, Returned(NoneV, "An exception occurred: {e}", {"store"}, NoRow), <<insert>>)
        ELSE IF inserted.rows # {}
        THEN Done(inserted.store,
                  Returned((CHOOSE r \in inserted.rows : TRUE)["user_id"],
                           "Account creation was successful.", {}, NoRow),
                  <<insert, mail>>)
        ELSE Done(st, Returned(NoneV, "Unexpected response: No data returned after insert.", {},
                               NoRow), <<insert, mail>>)

create_account(req, st, storeHow, mailHow) ==
    LET valid == validate_request(req)
        object_type == req.object_type
        attributes == req.attributes.items
        data_to_insert == attributes
        inserted == StoreInsert(st, object_type, data_to_insert, storeHow)
        insert == Call("store", "insert", object_type, data_to_insert, NoneV,
                       storeHow, inserted.rows)
        mail == Call("mail", "send", "", <<>>, DictGet(attributes, "email"), mailHow, {})
    IN  IF valid.kind = "raise" THEN Done(st, Raised(valid.msg), <<>>)
        ELSE IF valid.kind # "ok"
        THEN Done(st, Returned(NoneV, valid.msg, valid.names, NoRow), <<>>)
        ELSE IF storeHow = "exception"
        THEN Done(st, Returned(NoneV, "An exception occurred: {e}", {"store"}, NoRow), <<insert>>)
        ELSE IF inserted.rows # {}
        THEN IF mailHow = "exception"
             THEN Done(inserted.store,
                       Returned(NoneV, "An exception occurred: {e}", {"mail"}, NoRow),
                       <<insert, mail>>)
             ELSE Done(inserted.store,
                       Returned((CHOOSE r \in inserted.rows : TRUE)["user_id"],
                                "Account creation was successful.", {}, NoRow),
                       <<insert, mail>>)
        ELSE IF storeHow = "error"
        THEN Done(st, Returned(NoneV, "An error occurred: {error_value}", {"store"}, NoRow),
                  <<insert>>)
        ELSE Done(st, Returned(NoneV, "Unexpected response: No data returned after insert.", {},
                               NoRow), <<insert>>)

\* Mutant of update_account: null values are sent to the store with the rest.
update_account_nulls_sent(req, st, storeHow) ==
    LET valid == validate_request(req)
        data_to_update == req.attributes.items
        updated == StoreUpdate(st, req.object_type, data_to_update, req.identifier, storeHow)
        update == Call("store", "update", req.object_type, data_to_update, req.identifier,
                       storeHow, updated.rows)
    IN  IF valid.kind = "raise" THEN Done(st, Raised(valid.msg), <<>>)
        ELSE IF valid.kind # "ok"
        THEN Done(st, Returned(BoolV(FALSE), valid.msg, valid.names, NoRow), <<>>)
        ELSE IF storeHow = "exception"
        THEN Done(st, Returned(BoolV(FALSE), "An exception occurred: {e}", {"store"}, NoRow),
                  <<update>>)
        ELSE IF updated.rows # {}
        THEN Done(updated.store,
                  Returned(BoolV(TRUE), "Account update was successful.", {}, NoRow), <<update>>)
        ELSE Done(st, Returned(BoolV(FALSE), "Failed to update account: Record not found.", {},
                               NoRow), <<update>>)

\* Mutant of update_account: any returned row counts as success.
update_account_any_row(req, st, storeHow) ==
    LET valid == validate_request(req)
        data_to_update == SelectSeq(req.attributes.items, LAMBDA p : p.v # NoneV)
        updated == StoreUpdate(st, req.object_type, data_to_update, req.identifier, storeHow)
        update == Call("store", "update", req.object_type, data_to_update, req.identifier,
                       storeHow, updated.rows)
    IN  IF valid.kind = "raise" THEN Done(st, Raised(valid.msg), <<>>)
        ELSE IF valid.kind # "ok"
        THEN Done(st, Returned(BoolV(FALSE), valid.msg, valid.names, NoRow), <<>>)
        ELSE IF data_to_update = <<>>
        THEN Done(st, Returned(BoolV(FALSE), "No valid attributes provided for update.", {},
                               NoRow), <<>>)
        ELSE IF storeHow = "exception"
        THEN Done(st, Returned(BoolV(FALSE), "An exception occurred: {e}", {"store"}, NoRow),
                  <<update>>)
        ELSE IF updated.rows # {}
        THEN Done(updated.store,
                  Returned(BoolV(TRUE), "Account update was successful.", {}, NoRow), <<update>>)
        ELSE Done(st, Returned(BoolV(FALSE), "Failed to update account: Record not found.", {},
                               NoRow), <<update>>)

update_account(req, st, storeHow) ==
    LET valid == validate_request(req)
        object_type == req.object_type
        identifier == req.identifier
        attributes == req.attributes.items
        data_to_update == SelectSeq(attributes, LAMBDA p : p.v # NoneV)
        updated == StoreUpdate(st, object_type, data_to_update, identifier, storeHow)
        update == Call("store", "update", object_type, data_to_update, identifier,
                       storeHow, updated.rows)
        updated_attributes == CHOOSE r \in updated.rows : TRUE
    IN  IF valid.kind = "raise" THEN Done(st, Raised(valid.msg), <<>>)
        ELSE IF valid.kind # "ok"
        THEN Done(st, Returned(BoolV(FALSE), valid.msg, valid.names, NoRow), <<>>)
        ELSE IF data_to_update = <<>>
        THEN Done(st, Returned(BoolV(FALSE), "No valid attributes provided for update.", {},
                               NoRow), <<>>)
        ELSE IF storeHow = "exception"
        THEN Done(st, Returned(BoolV(FALSE), "An exception occurred: {e}", {"store"}, NoRow),
                  <<update>>)
        ELSE IF updated.rows # {}
        THEN IF \E i \in DOMAIN data_to_update :
                    data_to_update[i].k \notin DOMAIN updated_attributes
             THEN Done(updated.store,
                       Returned(BoolV(FALSE), "An exception occurred: {e}", {"KeyError"}, NoRow),
                       <<update>>)
             ELSE IF \A i \in DOMAIN data_to_update :
                        updated_attributes[data_to_update[i].k] = data_to_update[i].v
             THEN Done(updated.store,
                       Returned(BoolV(TRUE), "Account update was successful.", {}, NoRow),
                       <<update>>)
             ELSE Done(updated.store,
                       Returned(BoolV(FALSE),
                                "Failed to update account: Attributes not updated as expected.",
                                {}, NoRow),
                       <<update>>)
        ELSE Done(st, Returned(BoolV(FALSE), "Failed to update account: Record not found.", {},
                               NoRow), <<update>>)

Inactive == StrV(<<"I", "n", "a", "c", "t", "i", "v", "e">>)

\* Mutant of delete_account: the rows are removed from the table.
delete_account_hard(req, st, storeHow) ==
    LET valid == validate_request(req)
        object_type == req.object_type
        identifier == req.identifier
        hit == Matching(st, object_type, identifier)
        delete == Call("store", "delete", object_type, <<>>, identifier, storeHow,
                       IF storeHow = "exception" THEN {} ELSE hit)
    IN  IF valid.kind = "raise" THEN Done(st, Raised(valid.msg), <<>>)
        ELSE IF valid.kind # "ok"
        THEN Done(st, Returned(BoolV(FALSE), valid.msg, valid.names, NoRow), <<>>)
        ELSE IF storeHow = "exception"
        THEN Done(st, Returned(BoolV(FALSE), "An exception occurred: {e}", {"store"}, NoRow),
                  <<delete>>)
        ELSE IF hit # {}
        THEN Done([st EXCEPT ![object_type] = @ \ hit],
                  Returned(BoolV(TRUE),
                           "{Object_type} account status updated to 'Inactive' successfully.",
                           {object_type}, NoRow),
                  <<delete>>)
        ELSE Done(st, Returned(BoolV(FALSE), "{Object_type} account not found or update failed.",
                               {object_type}, NoRow), <<delete>>)

delete_account(req, st, storeHow) ==
    LET valid == validate_request(req)
        object_type == req.object_type
        identifier == req.identifier
        patch == <<[k |-> "status", v |-> Inactive]>>
        updated == StoreUpdate(st, object_type, patch, identifier, storeHow)
        update == Call("store", "update", object_type, patch, identifier,
                       storeHow, updated.rows)
    IN  IF valid.kind = "raise" THEN Done(st, Raised(valid.msg), <<>>)
        ELSE IF valid.kind # "ok"
        THEN Done(st, Returned(BoolV(FALSE), valid.msg, valid.names, NoRow), <<>>)
        ELSE IF storeHow = "exception"
        THEN Done(st, Returned(BoolV(FALSE), "An exception occurred: {e}", {"store"}, NoRow),
                  <<update>>)
        ELSE IF Cardinality(updated.rows) > 0
        THEN Done(updated.store,
                  Returned(BoolV(TRUE),
                           "{Object_type} account status updated to 'Inactive' successfully.",
                           {object_type}, NoRow),
                  <<update>>)
        ELSE Done(st, Returned(BoolV(FALSE), "{Object_type} account not found or update failed.",
                               {object_type}, NoRow), <<update>>)

\* The default of find_artist_by_name's threshold parameter.
threshold == 75

\* Scores the matcher may give, on both sides of the threshold.
Scores == {0, threshold - 1, threshold, 100}

\* What process.extractOne can answer on the rows fetched: one of them as the
\* best match, with a score; on no rows it answers None.
BestMatches(rows) ==
    IF rows = {} THEN {[row |-> NoRow, score |-> 0]}
    ELSE {[row |-> r, score |-> s] : r \in rows, s \in Scores}

\* The rows of the artists table, projected on user_id and artist_name.
ArtistInfo(st) == {[c \in {"user_id", "artist_name"} |-> r[c]] : r \in st["artist"]}

\* No try block: an exception of the store, and the TypeError of unpacking
\* the None that extractOne gives on an empty list, leave the function.  The
\* row returned is the first of the list that bears the best match's name;
\* the list's order is the store's.
find_artist_by_name(search_term, st, storeHow, best) ==
    LET artist_info == IF storeHow = "ok" THEN ArtistInfo(st) ELSE {}
        call == Call("store", "select", "artist", <<"user_id", "artist_name">>, NoneV,
                     storeHow, artist_info)
    IN  IF storeHow = "exception" THEN Done(st, Raised("store"), <<call>>)
        ELSE IF artist_info = {} THEN Done(st, Raised("TypeError"), <<call>>)
        ELSE IF best.score >= threshold
        THEN Done(st, Returned(InfoV, "", {}, best.row), <<call>>)
        ELSE Done(st, Returned(NoneV, "", {}, NoRow), <<call>>)

(***************************************************************************)
(* Spec: requests handled one after another by the executors, against one  *)
(* store that starts empty.  Two accounts' identifiers occur, and a few    *)
(* mappings per operation: accepted ones and ones every check rejects.     *)
(***************************************************************************)
ExecIdA == ValidAuthId

ExecIdB == StrV(Run("0", AuthIdMinLen))

X == StrV(<<"x">>)

Y == StrV(<<"y">>)

Pair(k, v) == [k |-> k, v |-> v]

\* The required fields of the type, user_id holding the account's identifier.
FullMapping(ot, id) ==
    [i \in DOMAIN RequiredSeq(ot) |->
        Pair(RequiredSeq(ot)[i], IF RequiredSeq(ot)[i] = "user_id" THEN id ELSE X)]

BadSpotifyId == StrV(Run("a", SpotifyIdMinLen) \o <<"@">>)

CreateInputs ==
    {Request("create", "artist", ExecIdA, DictAttrs(FullMapping("artist", ExecIdA) \o more)) :
        more \in {<<>>, <<Pair("spotify_artist_id", ValidSpotifyId)>>, <<Pair("", Y)>>}}
    \cup {Request("create", "artist", ExecIdB, DictAttrs(FullMapping("artist", ExecIdB)))}
    \cup {Request("create", "artist", ExecIdA, DictAttrs(a)) :
            a \in {Tail(FullMapping("artist", ExecIdA)),
                   FullMapping("artist", ExecIdA) \o <<Pair("extra_field", X)>>,
                   FullMapping("artist", ExecIdA) \o <<Pair("spotify_artist_id", BadSpotifyId)>>}}
    \cup {Request("create", "venue", ExecIdA, DictAttrs(FullMapping("venue", ExecIdA))),
          Request("create", "event", ExecIdA, DictAttrs(FullMapping("artist", ExecIdA))),
          Request("create", "artist", StrV(<<>>), DictAttrs(FullMapping("artist", ExecIdA))),
          Request("create", "artist", NoneV, DictAttrs(FullMapping("artist", ExecIdA))),
          Request("remove", "artist", ExecIdA, DictAttrs(FullMapping("artist", ExecIdA)))}

UpdateInputs ==
    {Request("update", "artist", ExecIdA, DictAttrs(a)) :
        a \in {<<Pair("email", Y)>>, <<Pair("spotify_artist_id", BadSpotifyId)>>,
               <<Pair("bio", NoneV)>>, <<Pair("email", Y), Pair("bio", NoneV)>>}}
    \cup {Request("update", "artist", ExecIdA, a) :
            a \in {DictAttrs(<<>>), AbsentAttrs, DictAttrs(<<Pair("", Y), Pair("email", Y)>>),
                   DictAttrs(<<Pair("", NoneV), Pair("email", Y)>>),
                   DictAttrs(<<Pair("extra_field", NoneV), Pair("email", Y)>>),
                   DictAttrs(<<Pair("extra_field", X)>>), DictAttrs(<<Pair("email", StrV(<<>>))>>)}}
    \cup {Request("update", "ticket", ExecIdA, DictAttrs(<<Pair("email", Y)>>)),
          Request("update", "artist", StrV(<<"7">>), DictAttrs(<<Pair("email", Y)>>))}

GetInputs ==
    {Request("get", "artist", id, DictAttrs(<<Pair("email", BoolV(TRUE)),
                                              Pair("status", BoolV(TRUE))>>)) :
        id \in {ExecIdA, ExecIdB}}
    \cup {Request("get", "artist", ExecIdA, a) :
            a \in {ListAttrs(<<"email">>), DictAttrs(<<Pair("email", BoolV(FALSE))>>),
                   DictAttrs(<<Pair("extra_field", BoolV(TRUE))>>), AbsentAttrs}}
    \cup {Request("get", "venue", ExecIdA, DictAttrs(<<Pair("email", BoolV(TRUE))>>)),
          Request("get", "event", ExecIdA, DictAttrs(<<Pair("status", BoolV(TRUE))>>)),
          Request("get", Absent, ExecIdA, DictAttrs(<<Pair("email", BoolV(TRUE))>>)),
          Request("get", "artist", NoneV, DictAttrs(<<Pair("email", BoolV(TRUE))>>))}

DeleteInputs ==
    {Request("delete", "artist", id, a) : id \in {ExecIdA, ExecIdB}, a \in {AbsentAttrs}}
    \cup {Request("delete", "venue", ExecIdA, DictAttrs(<<Pair("extra_field", X)>>)),
          Request("delete", "ticket", ExecIdA, AbsentAttrs),
          Request("delete", "artist", StrV(<<>>), AbsentAttrs),
          Request("delete", "artist", NoneV, AbsentAttrs)}

CheckEmailInputs ==
    {ExecIdA, ExecIdB, StrV(<<>>), StrV(Run("7", AuthIdMinLen - 1)), NoneV}

\* The ways the collaborators' calls of a request can end; a request that
\* validation stops makes no call, and no mail is sent without a stored row.
InsertHows(req, st) ==
    IF validate_request(req).kind = "ok"
    THEN InsertOutcomes(st, req.object_type, req.attributes.items)
    ELSE {"exception"}

UpdateHows(req, st, patch) ==
    IF validate_request(req).kind = "ok"
    THEN UpdateOutcomes(st, req.object_type, patch, req.identifier)
    ELSE {"exception"}

SelectHows(req) ==
    IF validate_request(req).kind = "ok" /\ req.attributes.shape = "dict"
    THEN {"ok", "exception"}
    ELSE {"exception"}

RpcHows(id) ==
    IF ~is_valid_auth_id_raises(id) /\ is_valid_auth_id(id)
    THEN {"ok", "exception"}
    ELSE {"exception"}

MailHows(storeHow) == IF storeHow = "ok" THEN {"ok", "exception"} ELSE {"ok"}

Init ==
    /\ ValidatorDefaults
    /\ RequestDefaults
    /\ ExecDefaults

CheckEmailInUse ==
    \E id \in CheckEmailInputs :
      \E storeHow \in RpcHows(id) :
        LET done == check_email_in_use(id, store, storeHow)
        IN  /\ executor' = "check_email_in_use"
            /\ request' = Request(Absent, Absent, id, AbsentAttrs)
            /\ store' = done.store
            /\ result' = done.result
            /\ calls' = done.calls
            /\ UNCHANGED <<idFn, idArg, idRet, outcome, response>>

GetAccountInfo ==
    \E req \in GetInputs :
      \E storeHow \in SelectHows(req) :
        LET done == get_account_info(req, store, storeHow)
        IN  /\ executor' = "get_account_info"
            /\ request' = req
            /\ store' = done.store
            /\ result' = done.result
            /\ calls' = done.calls
            /\ UNCHANGED <<idFn, idArg, idRet, outcome, response>>

CreateAccount ==
    \E req \in CreateInputs :
        \E storeHow \in InsertHows(req, store) :
          \E mailHow \in MailHows(storeHow) :
            LET done == create_account(req, store, storeHow, mailHow)
            IN  /\ executor' = "create_account"
                /\ request' = req
                /\ store' = done.store
                /\ result' = done.result
                /\ calls' = done.calls
                /\ UNCHANGED <<idFn, idArg, idRet, outcome, response>>

UpdateAccount ==
    \E req \in UpdateInputs :
        \E storeHow \in UpdateHows(req, store,
                                   SelectSeq(req.attributes.items, LAMBDA p : p.v # NoneV)) :
            LET done == update_account(req, store, storeHow)
            IN  /\ executor' = "update_account"
                /\ request' = req
                /\ store' = done.store
                /\ result' = done.result
                /\ calls' = done.calls
                /\ UNCHANGED <<idFn, idArg, idRet, outcome, response>>

DeleteAccount ==
    \E req \in DeleteInputs :
        \E storeHow \in UpdateHows(req, store, <<[k |-> "status", v |-> Inactive]>>) :
            LET done == delete_account(req, store, storeHow)
            IN  /\ executor' = "delete_account"
                /\ request' = req
                /\ store' = done.store
                /\ result' = done.result
                /\ calls' = done.calls
                /\ UNCHANGED <<idFn, idArg, idRet, outcome, response>>

Next ==
    \/ CheckEmailInUse
    \/ GetAccountInfo
    \/ CreateAccount
    \/ UpdateAccount
    \/ DeleteAccount

Spec == Init /\ [][Next]_vars

(***************************************************************************)
(* SpecApi: the HTTP endpoints.  Each takes the JSON body of the request,  *)
(* calls its executor unless the body is not for it, and answers with a    *)
(* status and a JSON body: {"error": msg}, {"message": msg} (with user_id  *)
(* on create) or the executor's dictionary.  An exception that leaves the  *)
(* executor leaves the endpoint too; the framework answers it with 500.    *)
(***************************************************************************)
\* A key the body lacks, where None would be another body.
AbsentV == [t |-> "absent", s |-> <<>>, n |-> 0]

\* get_json() gave None or {}.
EmptyPayload == Request(Absent, Absent, AbsentV, AbsentAttrs)

Answer(status, key, msg, names) == [status |-> status, key |-> key, msg |-> msg, names |-> names]

Unhandled(exc) == Answer(500, "unhandled", exc, {})

NotCalled(st) == Done(st, [kind |-> "pending"], <<>>)

ApiDone(done, answer) ==
    [store |-> done.store, result |-> done.result, calls |-> done.calls, response |-> answer]

api_check_email_in_use(req_data, st, storeHow) ==
    LET id == req_data.identifier
        done == check_email_in_use(id, st, storeHow)
    IN  IF req_data = EmptyPayload \/ id = AbsentV
        THEN ApiDone(NotCalled(st),
                     Answer(400, "error", "Invalid or missing id in JSON payload", {}))
        ELSE IF done.result.value = ErrorV
        THEN ApiDone(done, Answer(500, "error", done.result.msg, done.result.names))
        ELSE ApiDone(done, Answer(200, "info", done.result.msg, done.result.names))

api_get_account_info(req_data, st, storeHow) ==
    LET done == get_account_info(req_data, st, storeHow)
    IN  IF req_data = EmptyPayload
        THEN ApiDone(NotCalled(st), Answer(400, "error", "Invalid or missing JSON payload", {}))
        ELSE IF req_data.function # "get"
        THEN ApiDone(NotCalled(st), Answer(400, "error", "API only handles get requests", {}))
        ELSE IF done.result.kind = "raise" THEN ApiDone(done, Unhandled(done.result.msg))
        ELSE IF done.result.value = ErrorV
        THEN ApiDone(done,
                     Answer(IF done.result.msg = "No account found for the provided email."
                            THEN 404 ELSE 500,
                            "error", done.result.msg, done.result.names))
        ELSE ApiDone(done, Answer(200, "info", done.result.msg, done.result.names))

api_create_account(req_data, st, storeHow, mailHow) ==
    LET done == create_account(req_data, st, storeHow, mailHow)
    IN  IF req_data = EmptyPayload
        THEN ApiDone(NotCalled(st), Answer(400, "error", "Invalid or missing JSON payload", {}))
        ELSE IF req_data.function # "create"
        THEN ApiDone(NotCalled(st), Answer(400, "error", "API only handles create requests", {}))
        ELSE IF done.result.kind = "raise" THEN ApiDone(done, Unhandled(done.result.msg))
        ELSE IF Truthy(done.result.value)
        THEN ApiDone(done, Answer(200, "user_id", done.result.msg, done.result.names))
        ELSE ApiDone(done, Answer(400, "error", done.result.msg, done.result.names))

api_update_account(req_data, st, storeHow) ==
    LET done == update_account(req_data, st, storeHow)
    IN  IF req_data = EmptyPayload
        THEN ApiDone(NotCalled(st), Answer(400, "error", "Invalid or missing JSON payload", {}))
        ELSE IF req_data.function # "update"
        THEN ApiDone(NotCalled(st), Answer(400, "error", "API only handles update requests", {}))
        ELSE IF done.result.kind = "raise" THEN ApiDone(done, Unhandled(done.result.msg))
        ELSE IF Truthy(done.result.value)
        THEN ApiDone(done, Answer(200, "message", done.result.msg, done.result.names))
        ELSE ApiDone(done, Answer(400, "error", done.result.msg, done.result.names))

\* Mutant of api_delete_account: the body goes to the executor unlooked at.
api_delete_account_unchecked(req_data, st, storeHow) ==
    LET done == delete_account(req_data, st, storeHow)
    IN  IF done.result.kind = "raise" THEN ApiDone(done, Unhandled(done.result.msg))
        ELSE IF Truthy(done.result.value)
        THEN ApiDone(done, Answer(200, "message", done.result.msg, done.result.names))
        ELSE ApiDone(done, Answer(400, "error", done.result.msg, done.result.names))

api_delete_account(req_data, st, storeHow) ==
    LET done == delete_account(req_data, st, storeHow)
    IN  IF req_data = EmptyPayload
        THEN ApiDone(NotCalled(st), Answer(400, "error", "Invalid or missing JSON payload", {}))
        ELSE IF req_data.function # "delete"
        THEN ApiDone(NotCalled(st), Answer(400, "error", "API only handles delete requests", {}))
        ELSE IF done.result.kind = "raise" THEN ApiDone(done, Unhandled(done.result.msg))
        ELSE IF Truthy(done.result.value)
        THEN ApiDone(done, Answer(200, "message", done.result.msg, done.result.names))
        ELSE ApiDone(done, Answer(400, "error", done.result.msg, done.result.names))

api_find_artist_by_name(query, st, storeHow, best) ==
    LET done == find_artist_by_name(query.search_term, st, storeHow, best)
    IN  IF query = EmptyPayload \/ "search_term" \notin DOMAIN query
        THEN ApiDone(NotCalled(st), Answer(400, "error", "Invalid or missing JSON payload", {}))
        ELSE IF done.result.kind = "raise" THEN ApiDone(done, Unhandled(done.result.msg))
        ELSE IF done.result.value = InfoV
        THEN ApiDone(done, Answer(200, "info", done.result.msg, done.result.names))
        ELSE ApiDone(done, Answer(404, "error", "No artists found matching the criteria", {}))

\* Bodies that are not for the endpoint: none, another function, no function.
OtherPayloads ==
    {EmptyPayload,
     Request("remove", "artist", ExecIdA, DictAttrs(<<Pair("email", BoolV(TRUE))>>)),
     Request(Absent, "artist", ExecIdA, AbsentAttrs)}

IdPayload(id) == Request(Absent, Absent, id, AbsentAttrs)

ApiCheckEmailInUse ==
    \E id \in CheckEmailInputs \cup {AbsentV} :
      \E storeHow \in IF id = AbsentV THEN {"exception"} ELSE RpcHows(id) :
        \E done \in {api_check_email_in_use(IdPayload(id), store, storeHow)} :
            /\ executor' = "api_check_email_in_use"
            /\ request' = IdPayload(id)
            /\ store' = done.store
            /\ result' = done.result
            /\ calls' = done.calls
            /\ response' = done.response
            /\ UNCHANGED <<idFn, idArg, idRet, outcome>>

ApiGetAccountInfo ==
    \E req_data \in GetInputs \cup OtherPayloads :
      \E storeHow \in SelectHows(req_data) :
        \E done \in {api_get_account_info(req_data, store, storeHow)} :
            /\ executor' = "api_get_account_info"
            /\ request' = req_data
            /\ store' = done.store
            /\ result' = done.result
            /\ calls' = done.calls
            /\ response' = done.response
            /\ UNCHANGED <<idFn, idArg, idRet, outcome>>

ApiCreateAccount ==
    \E req_data \in CreateInputs \cup OtherPayloads :
        \E storeHow \in InsertHows(req_data, store) :
          \E mailHow \in MailHows(storeHow) :
            \E done \in {api_create_account(req_data, store, storeHow, mailHow)} :
                /\ executor' = "api_create_account"
                /\ request' = req_data
                /\ store' = done.store
                /\ result' = done.result
                /\ calls' = done.calls
                /\ response' = done.response
                /\ UNCHANGED <<idFn, idArg, idRet, outcome>>

ApiUpdateAccount ==
    \E req_data \in UpdateInputs \cup OtherPayloads :
        \E storeHow \in UpdateHows(req_data, store,
                                   SelectSeq(req_data.attributes.items, LAMBDA p : p.v # NoneV)) :
            \E done \in {api_update_account(req_data, store, storeHow)} :
                /\ executor' = "api_update_account"
                /\ request' = req_data
                /\ store' = done.store
                /\ result' = done.result
                /\ calls' = done.calls
                /\ response' = done.response
                /\ UNCHANGED <<idFn, idArg, idRet, outcome>>

ApiDeleteAccount ==
    \E req_data \in DeleteInputs \cup OtherPayloads :
        \E storeHow \in UpdateHows(req_data, store, <<[k |-> "status", v |-> Inactive]>>) :
            \E done \in {api_delete_account(req_data, store, storeHow)} :
                /\ executor' = "api_delete_account"
                /\ request' = req_data
                /\ store' = done.store
                /\ result' = done.result
                /\ calls' = done.calls
                /\ response' = done.response
                /\ UNCHANGED <<idFn, idArg, idRet, outcome>>

SearchPayload(term) == [search_term |-> term]

\* The ways the lookup's select and the matcher can end, for a body that
\* reaches them.
FindHows(query, st) ==
    IF "search_term" \in DOMAIN query
    THEN {<<"exception", b>> : b \in BestMatches({})}
         \cup {<<"ok", b>> : b \in BestMatches(ArtistInfo(st))}
    ELSE {<<"exception", b>> : b \in BestMatches({})}

ApiFindArtistByName ==
    \E query \in {SearchPayload(X)} \cup OtherPayloads :
        \E how \in FindHows(query, store) :
            \E done \in {api_find_artist_by_name(query, store, how[1], how[2])} :
                /\ executor' = "api_find_artist_by_name"
                /\ request' = query
                /\ store' = done.store
                /\ result' = done.result
                /\ calls' = done.calls
                /\ response' = done.response
                /\ UNCHANGED <<idFn, idArg, idRet, outcome>>

NextApi ==
    \/ ApiCheckEmailInUse
    \/ ApiGetAccountInfo
    \/ ApiCreateAccount
    \/ ApiUpdateAccount
    \/ ApiDeleteAccount
    \/ ApiFindArtistByName

SpecApi == Init /\ [][NextApi]_vars

(***************************************************************************)
(* Properties of the executors (Spec).                                     *)
(***************************************************************************)
Executors == {"create_account", "update_account", "delete_account", "get_account_info"}

\* What each executor returns first when it fails: None, False, or the
\* dictionary with an "error" entry.
FailureSignal(name) ==
    CASE name = "create_account" -> NoneV
      [] name \in {"update_account", "delete_account"} -> BoolV(FALSE)
      [] OTHER -> ErrorV

\* The request just handled was rejected by the validation its executor runs.
RejectedByValidation ==
    \/ executor \in Executors /\ validate_request(request).kind = "reject"
    \/ /\ executor = "check_email_in_use"
       /\ ~is_valid_auth_id_raises(request.identifier)
       /\ ~is_valid_auth_id(request.identifier)

ValidatorReason ==
    IF executor = "check_email_in_use"
    THEN Reject("Invalid Google Authentication ID format.", {})
    ELSE validate_request(request)

AllChars(s, P(_)) == \A i \in DOMAIN s : P(s[i])

\* C3: The identifier validators reject the empty string and every non-string
\* input (a missing identifier is None) by returning false; they never raise.
C3_NonStringRejectedNotRaised ==
    (idFn # "none" /\ (idArg.t # "str" \/ idArg.s = <<>>)) => idRet = "false"

\* C4: is_valid_auth_id(s) is true exactly when s consists only of decimal
\* digits and 10 <= len(s) <= 21.
C4_AuthIdExactlyDecimalDigits ==
    (idFn = "is_valid_auth_id" /\ idArg.t = "str") =>
        (idRet = "true" <=>
            /\ AllChars(idArg.s, UnicodeDecimal)
            /\ 10 <= Len(idArg.s) /\ Len(idArg.s) <= 21)

\* C5: is_valid_spotify_user_id(s) is true exactly when every character of s is
\* in [A-Za-z0-9_-] and 8 <= len(s) <= 32; a string with any other character,
\* a trailing newline included, is rejected.
C5_SpotifyIdExactlyClassChars ==
    (idFn = "is_valid_spotify_user_id" /\ idArg.t = "str") =>
        (idRet = "true" <=>
            /\ AllChars(idArg.s, SpotifyClass)
            /\ 8 <= Len(idArg.s) /\ Len(idArg.s) <= 32)

(***************************************************************************)
(* Properties of validate_request (SpecValidate).                          *)
(***************************************************************************)
Validated == outcome.kind # "pending"

\* The identifier is a string the identifier validator accepts.
IdentifierFormatOK(id) == id.t = "str" /\ is_valid_auth_id(id)

ValidEnvelope(req, function) ==
    /\ req.function = function
    /\ req.object_type \in {"venue", "artist", "attendee"}
    /\ IdentifierFormatOK(req.identifier)

\* A validated request of the given operation with a valid envelope whose
\* attributes are a mapping.
MappingCase(function) ==
    /\ Validated
    /\ ValidEnvelope(request, function)
    /\ request.attributes.shape = "dict"

Items == request.attributes.items

NoEmptyValue(items) == \A i \in DOMAIN items : ~IsEmptyStr(items[i].v)

\* C2: The entry gates are evaluated in the order operation kind, out-of-scope
\* type, unmanaged or missing type, identifier format, and the outcome of a
\* request that fails a gate is the rejection with the first failing gate's reason.
C2_FirstFailingGateReason ==
    Validated =>
        IF request.function \notin {"get", "create", "update", "delete"}
        THEN outcome = Reject("Invalid function specified.", {})
        ELSE IF request.object_type \in {"event", "ticket"}
        THEN outcome = Reject("Management of {object_type}s is handled by a separate API.",
                              {request.object_type})
        ELSE IF request.object_type \notin {"venue", "artist", "attendee"}
        THEN outcome = Reject("Invalid object type. Must be one of ['venue', 'artist', 'attendee'].", {})
        ELSE IF ~IdentifierFormatOK(request.identifier)
        THEN outcome = Reject("Invalid or missing unique ID.", {})
        ELSE TRUE

\* C6 as stated, on mappings of string values: create validation accepts every
\* mapping whose keys cover the required fields and lie in the field set, and
\* whose values are not empty.
C6_CreateAcceptsCoveringMapping ==
    (/\ MappingCase("create")
     /\ \A i \in DOMAIN Items : Items[i].v.t = "str"
     /\ RequiredFields(request.object_type) \subseteq Keys(Items)
     /\ Keys(Items) \subseteq AllFields(request.object_type)
     /\ NoEmptyValue(Items)) =>
        outcome.kind = "ok"

\* The spotify_artist_id of the mapping is absent, falsy, or a string that
\* is_valid_spotify_user_id accepts.
SpotifyIdAcceptable(items) ==
    LET v == DictGet(items, "spotify_artist_id")
    IN  ~Truthy(v) \/ (v.t = "str" /\ is_valid_spotify_user_id(v))

\* C6 amended: create validation accepts every such mapping whose
\* spotify_artist_id, when present and truthy, passes is_valid_spotify_user_id.
C6_CreateAcceptsCoveringMappingValidSpotify ==
    (/\ MappingCase("create")
     /\ RequiredFields(request.object_type) \subseteq Keys(Items)
     /\ Keys(Items) \subseteq AllFields(request.object_type)
     /\ NoEmptyValue(Items)
     /\ SpotifyIdAcceptable(Items)) =>
        outcome = Accept("Request is valid.")

\* C6 witness: an accepted artist mapping that holds more than the required
\* fields, a checked spotify_artist_id among them.
C6_Witness ==
    /\ MappingCase("create")
    /\ outcome.kind = "ok"
    /\ RequiredFields(request.object_type) \subseteq Keys(Items)
    /\ Keys(Items) # RequiredFields(request.object_type)
    /\ Truthy(DictGet(Items, "spotify_artist_id"))

MissingRequired == RequiredFields(request.object_type) \ Keys(Items)

\* Keys of the mapping outside the type's field set.
OutsideKeys == Keys(Items) \ AllFields(request.object_type)

C8_OutsideKeysRejectedAndNamed ==
    ((MappingCase("create") \/ MappingCase("update")) /\ OutsideKeys # {}) =>
        (outcome.kind = "reject" /\ OutsideKeys \subseteq outcome.names)

AllTruthy(items) == \A i \in DOMAIN items : Truthy(items[i].v)

GetAcceptable ==
    /\ Items # <<>>
    /\ Keys(Items) \subseteq AllFields(request.object_type)
    /\ AllTruthy(Items)

\* C10 as stated: get validation accepts exactly the non-empty mappings whose
\* keys are in the field set and whose values are truthy, and the name of a
\* key outside the schema appears in the reason.
C10_GetExactlyAndOutsideKeyNamed ==
    MappingCase("get") =>
        /\ outcome.kind = "ok" <=> GetAcceptable
        /\ outcome.kind # "raise"
        /\ Cardinality(OutsideKeys) = 1 => OutsideKeys \subseteq outcome.names

\* The position of the mapping's first key outside the schema, and the
\* entries before it.
FirstOutside(items) ==
    LET out == {i \in DOMAIN items : items[i].k \notin AllFields(request.object_type)}
    IN  CHOOSE i \in out : \A j \in out : i <= j

BeforeFirstOutside(items) == SubSeq(items, 1, FirstOutside(items) - 1)

\* C10 amended: get validation accepts exactly those mappings; a key outside
\* the schema is named in the reason when no entry before it, in the mapping's
\* order, carries a false flag.
C10_GetExactlyAndFirstOutsideKeyNamed ==
    MappingCase("get") =>
        /\ outcome.kind = "ok" <=> GetAcceptable
        /\ outcome.kind # "raise"
        /\ (OutsideKeys # {} /\ AllTruthy(BeforeFirstOutside(Items))) =>
                outcome = Reject("Invalid attribute '{attr}' for object_type '{object_type}'.",
                                 {Items[FirstOutside(Items)].k})

\* C10 witness: a mapping rejected for its one key outside the schema, which
\* follows accepted entries and is named, though a later flag is false.
C10_Witness ==
    /\ MappingCase("get")
    /\ Cardinality(OutsideKeys) = 1
    /\ OutsideKeys \subseteq outcome.names
    /\ Len(BeforeFirstOutside(Items)) > 0
    /\ ~AllTruthy(Items)

(***************************************************************************)
(* Properties of validate_request, continued (SpecValidate).               *)
(***************************************************************************)
\* A validated get request whose object type is not a managed account type.
GetOutsideTypeCase ==
    /\ Validated
    /\ request.function = "get"
    /\ request.object_type \notin {"venue", "artist", "attendee"}

\* C11 as stated: get validation rejects every request whose object type is
\* outside {venue, artist, attendee}, with the delegated-API reason.
C11_OutsideTypeDelegatedReason ==
    GetOutsideTypeCase =>
        outcome = Reject("Management of {object_type}s is handled by a separate API.",
                         {request.object_type})

\* C11 amended: get validation rejects every such request, whatever its
\* identifier and attributes; the reason is the delegated-API message for event
\* and ticket, and the invalid-object-type message for any other or missing type.
C11_OutsideTypeRejectedDelegatedForEventTicket ==
    GetOutsideTypeCase =>
        IF request.object_type \in {"event", "ticket"}
        THEN outcome = Reject("Management of {object_type}s is handled by a separate API.",
                              {request.object_type})
        ELSE outcome = Reject("Invalid object type. Must be one of ['venue', 'artist', 'attendee'].", {})

\* C11 witness: a get for tickets rejected with the delegated-API reason though
\* its identifier is missing and it asks for a field.
C11_Witness ==
    /\ GetOutsideTypeCase
    /\ request.object_type = "ticket"
    /\ request.identifier = NoneV
    /\ request.attributes.items # <<>>
    /\ outcome.msg = "Management of {object_type}s is handled by a separate API."

\* Keys of the mapping whose value is the empty string.
EmptyValueKeys == {Items[i].k : i \in {j \in DOMAIN Items : IsEmptyStr(Items[j].v)}}

CreateOrUpdateMapping == MappingCase("create") \/ MappingCase("update")

\* The request without the pairs whose key is the empty string.
WithoutEmptyKey(req) ==
    [req EXCEPT !.attributes.items = SelectSeq(@, LAMBDA p : p.k # "")]

C13_DeleteEnvelopeOnly ==
    (Validated /\ request.function = "delete") =>
        /\ outcome.kind = "ok" <=>
              /\ request.object_type \in {"venue", "artist", "attendee"}
              /\ IdentifierFormatOK(request.identifier)
        /\ outcome.kind = "ok" => outcome = Accept("Request is valid.")
        /\ outcome = validate_request([request EXCEPT !.attributes = AbsentAttrs])

\* C13 witness: an accepted delete whose attributes name a field no table has,
\* with an empty value.
C13_Witness ==
    /\ Validated
    /\ request.function = "delete"
    /\ outcome.kind = "ok"
    /\ request.attributes.shape = "dict"
    /\ "extra_field" \in Keys(Items)
    /\ ~NoEmptyValue(Items)

(***************************************************************************)
(* Properties of the executors, continued (Spec).                          *)
(***************************************************************************)
\* The request with the listed names turned into the mapping name -> True.
AsAllTrueMapping(req) ==
    LET names == DedupNames(req.attributes.items, {})
    IN  [req EXCEPT !.attributes =
            DictAttrs([i \in DOMAIN names |-> [k |-> names[i], v |-> BoolV(TRUE)]])]

\* C12: a get request whose attributes is a list of field names is handled by
\* validation and by get_account_info exactly like the request whose attributes
\* maps each listed name to true: same validation outcome, same select, same
\* result.
C12_ListHandledLikeAllTrueMapping ==
    (executor = "get_account_info" /\ request.attributes.shape = "list") =>
        /\ validate_request(request) = validate_request(AsAllTrueMapping(request))
        /\ \E storeHow \in {"ok", "exception"} :
              LET done == get_account_info(AsAllTrueMapping(request), store, storeHow)
              IN  result = done.result /\ calls = done.calls

\* The create request just handled had its row stored and returned: the insert
\* was followed by the welcome mail.
InsertSucceeded ==
    /\ executor = "create_account"
    /\ Len(calls) = 2
    /\ calls[1].op = "insert" /\ calls[2].svc = "mail"

\* C15: when create_account's insert has succeeded, the result is the new user
\* id with 'Account creation was successful.', whether or not the welcome
\* notification failed.
C15_MailFailureNotSurfaced ==
    InsertSucceeded =>
        result = Returned(DictGet(request.attributes.items, "user_id"),
                          "Account creation was successful.", {}, NoRow)

\* The submitted fields of the request whose value is not null.
SubmittedNonNull == SelectSeq(request.attributes.items, LAMBDA p : p.v # NoneV)

\* The row holds every submitted non-null field with the submitted value.
EchoesSubmitted(row) ==
    \A i \in DOMAIN SubmittedNonNull :
        /\ SubmittedNonNull[i].k \in DOMAIN row
        /\ row[SubmittedNonNull[i].k] = SubmittedNonNull[i].v

\* The rows the store answered the update with; none when it was not called
\* or the call raised.
UpdateAnswer == IF Len(calls) = 1 /\ calls[1].how # "exception" THEN calls[1].rows ELSE {}

\* C16: update_account returns success exactly when the store answered with a
\* row and that row holds every submitted non-null field with the submitted
\* value; an answer without rows gives (False, '... Record not found.'), and a
\* row that lacks a submitted field or holds another value gives a failure.
C16_UpdateSuccessIffRowEchoesPatch ==
    executor = "update_account" =>
        /\ result.value = BoolV(TRUE) <=>
              (UpdateAnswer # {} /\ \A r \in UpdateAnswer : EchoesSubmitted(r))
        /\ result.value = BoolV(TRUE) =>
              result = Returned(BoolV(TRUE), "Account update was successful.", {}, NoRow)
        /\ (Len(calls) = 1 /\ calls[1].how # "exception" /\ calls[1].rows = {}) =>
              result = Returned(BoolV(FALSE), "Failed to update account: Record not found.",
                                {}, NoRow)
        /\ (UpdateAnswer # {} /\ \E r \in UpdateAnswer : ~EchoesSubmitted(r)) =>
              result.kind = "return" /\ result.value = BoolV(FALSE)

\* C16 witness: the store answers an update with the account's row still
\* holding the old value, and the update is reported as failed.
C16_Witness ==
    /\ executor = "update_account"
    /\ UpdateAnswer # {}
    /\ \E r \in UpdateAnswer :
          \E i \in DOMAIN SubmittedNonNull :
              /\ SubmittedNonNull[i].k \in DOMAIN r
              /\ r[SubmittedNonNull[i].k] # SubmittedNonNull[i].v
    /\ result = Returned(BoolV(FALSE),
                         "Failed to update account: Attributes not updated as expected.",
                         {}, NoRow)

\* The keys of the request's mapping whose value is null.
NullKeys ==
    {request.attributes.items[i].k :
        i \in {j \in DOMAIN request.attributes.items : request.attributes.items[j].v = NoneV}}

\* The request with an ordinary value in the place of every null.
NullsFilled(req) ==
    [req EXCEPT !.attributes.items =
        [i \in DOMAIN @ |-> IF @[i].v = NoneV THEN [k |-> @[i].k, v |-> StrV(<<"x">>)] ELSE @[i]]]

ValidatedDelete == executor = "delete_account" /\ validate_request(request).kind = "ok"

\* The row is the request's account.
Addressed(ot, r) == ot = request.object_type /\ r["user_id"] = request.identifier

CrudEndpoints ==
    {"api_get_account_info", "api_create_account", "api_update_account", "api_delete_account"}

\* The endpoint passed the request on to its executor.
ExecutorCalled == result.kind # "pending"

\* C19: every CRUD endpoint answers a request that fails validation with
\* status 400 and the body {"error": reason}, the reason being the validator's.
C19_ValidationFailureIs400 ==
    (/\ executor \in CrudEndpoints
     /\ ExecutorCalled
     /\ validate_request(request).kind = "reject") =>
        response = Answer(400, "error", validate_request(request).msg,
                          validate_request(request).names)

\* C20: the get endpoint answers a validated get for an identifier that has no
\* row in the store with 404, and a store exception with 500.
C20_GetNotFound404StoreFailure500 ==
    (/\ executor = "api_get_account_info"
     /\ validate_request(request).kind = "ok"
     /\ Len(calls) = 1) =>
        /\ calls[1].how = "exception" => response.status = 500
        /\ (calls[1].how = "ok" /\ calls[1].rows = {}) => response.status = 404

Endpoints == CrudEndpoints \cup {"api_check_email_in_use", "api_find_artist_by_name"}

\* The function a CRUD endpoint handles.
EndpointFunction(name) ==
    CASE name = "api_get_account_info" -> "get"
      [] name = "api_create_account" -> "create"
      [] name = "api_update_account" -> "update"
      [] name = "api_delete_account" -> "delete"

\* The fixed payloads of the endpoints' own checks.
MissingBodyError(name) ==
    IF name = "api_check_email_in_use" THEN "Invalid or missing id in JSON payload"
    ELSE "Invalid or missing JSON payload"

WrongFunctionError(name) ==
    CASE name = "api_get_account_info" -> "API only handles get requests"
      [] name = "api_create_account" -> "API only handles create requests"
      [] name = "api_update_account" -> "API only handles update requests"
      [] name = "api_delete_account" -> "API only handles delete requests"

\* C21: every endpoint answers a missing or empty JSON body with 400 and its
\* fixed error payload, and a CRUD endpoint answers a body whose function is
\* absent or is another endpoint's with 400 and its fixed payload; in both
\* cases the executor (and with it the validator) is not called and no store
\* or notification call is made.
C21_BodyChecksAnswer400BeforeAnyCall ==
    /\ (executor \in Endpoints /\ request = EmptyPayload) =>
          /\ response = Answer(400, "error", MissingBodyError(executor), {})
          /\ ~ExecutorCalled
          /\ calls = <<>>
    /\ (/\ executor \in CrudEndpoints
        /\ request # EmptyPayload
        /\ request.function # EndpointFunction(executor)) =>
          /\ response = Answer(400, "error", WrongFunctionError(executor), {})
          /\ ~ExecutorCalled
          /\ calls = <<>>

\* C21 witness: the delete endpoint turns away a body for another function,
\* addressed to an account the store holds.
C21_Witness ==
    /\ executor = "api_delete_account"
    /\ request # EmptyPayload
    /\ request.function = "remove"
    /\ Matching(store, "artist", request.identifier) # {}
    /\ response.status = 400
    /\ calls = <<>>

\* The store raised during the request just handled.
StoreRaised == \E i \in DOMAIN calls : calls[i].svc = "store" /\ calls[i].how = "exception"

\* C22: an exception raised by the store is caught by the executor, the fuzzy
\* artist lookup included, and turned into its failure value with the
\* exception's message; it leaves neither the executor nor its endpoint.
C22_StoreExceptionCaughtByExecutor ==
    (executor \in Endpoints /\ StoreRaised) =>
        /\ result.kind = "return"
        /\ result.value \in {NoneV, BoolV(FALSE), ErrorV}
        /\ result.names = {"store"}
        /\ response.key # "unhandled"

\* C23: validate_request returns (accepted, reason) for every request, the
\* reason non-empty on rejection, and never raises: not for attributes that
\* are absent, a list or another non-mapping on create or update, nor for a
\* spotify_artist_id that is not a string.
C23_ValidateRequestNeverRaises ==
    Validated =>
        /\ outcome.kind \in {"ok", "reject"}
        /\ outcome.kind = "reject" => outcome.msg # ""

\* C24: for any artist table, the empty one included, and any search term,
\* find_artist_by_name returns the {artist_name, user_id} of a stored artist
\* when the best match scores at least the threshold, and None otherwise.
C24_FindReturnsStoredArtistOrNone ==
    (executor = "api_find_artist_by_name" /\ ExecutorCalled /\ ~StoreRaised) =>
        /\ result.kind = "return"
        /\ result.value \in {InfoV, NoneV}
        /\ result.value = InfoV => result.data \in ArtistInfo(store)

(***************************************************************************)
(* Properties of the executors, continued (Spec).                          *)
(***************************************************************************)
\* The positions of the calls made to a collaborator during the request.
CallsTo(svc) == {i \in DOMAIN calls : calls[i].svc = svc}

\* C25: within one request an executor makes at most one store call (it
\* never retries), and create_account alone sends a welcome notification, at
\* most one, and only after the insert answered with a row.
C25_OneStoreCallMailAfterInsertedRow ==
    executor # "none" =>
        /\ Cardinality(CallsTo("store")) <= 1
        /\ Cardinality(CallsTo("mail")) <= 1
        /\ \A i \in CallsTo("mail") :
              /\ executor = "create_account"
              /\ \E j \in CallsTo("store") :
                    /\ j < i
                    /\ calls[j].op = "insert"
                    /\ calls[j].rows # {}

\* C25 witness: create_account inserted a row and then sent the one mail.
C25_Witness ==
    /\ executor = "create_account"
    /\ Cardinality(CallsTo("store")) = 1
    /\ Cardinality(CallsTo("mail")) = 1
    /\ store[request.object_type] # {}

(***************************************************************************)
(* Properties of the extraction and the schema checks (SpecReconcile).     *)
(***************************************************************************)
\* One of the two schema checks was applied to a non-empty mapping and a
\* type without a schema entry.
NoSchemaCase(name) ==
    /\ idFn = name
    /\ attributes_schema(request.object_type) = <<>>
    /\ request.attributes.items # <<>>

\* C26: for an object type absent from the schema, check_for_extra_attributes
\* and check_required_attributes both reject every non-empty mapping, every
\* key of it counted as undefined.
C26_NoSchemaTypeRejectsEveryKey ==
    /\ NoSchemaCase("check_for_extra_attributes") =>
          outcome = Reject("Additional, undefined attributes cannot be specified: {names}. ",
                           Keys(request.attributes.items))
    /\ NoSchemaCase("check_required_attributes") =>
          outcome = Reject("Additional, undefined attributes cannot be specified: {names}.",
                           Keys(request.attributes.items))

\* C26 witness: the extra-attribute check rejected a one-key mapping for the
\* type "nonexistent".
C26_Witness ==
    /\ NoSchemaCase("check_for_extra_attributes")
    /\ request.object_type = "nonexistent"
    /\ Len(request.attributes.items) = 1
    /\ outcome.kind = "reject"

\* The mapping without the pair stored under a key.
WithoutKey(items, key) == SelectSeq(items, LAMBDA p : p.k # key)

\* The extraction was applied to a request whose attributes are a mapping, or
\* are missing, and that holds no empty key.
ExtractCase ==
    /\ idFn = "extract_and_prepare_attributes"
    /\ request.attributes.shape \in {"dict", "absent"}
    /\ ~HasKey(request.attributes.items, "")

\* C30: extract_and_prepare_attributes returns the request's object type with
\* its attribute mapping minus the user_id key; absent attributes give the
\* empty mapping and an absent object type gives None.
C30_ExtractDropsUserId ==
    ExtractCase =>
        /\ outcome.kind = "ok"
        /\ outcome.object_type = request.object_type
        /\ outcome.validation_attributes = WithoutKey(request.attributes.items, "user_id")

(***************************************************************************)
(* Properties of what reaches the store (Spec).                            *)
(***************************************************************************)
\* C27: in every reachable store, every spotify_artist_id written by
\* create_account or update_account passes is_valid_spotify_user_id.
C27_StoredSpotifyIdsValid ==
    \A r \in store["artist"] :
        r["spotify_artist_id"] # NoneV =>
            /\ ~is_valid_spotify_user_id_raises(r["spotify_artist_id"])
            /\ is_valid_spotify_user_id(r["spotify_artist_id"])

\* C28: every record create_account inserts or update_account sends as its
\* patch has only keys of the type's field set and no empty-string value.
C28_StoreRecordsWithinSchema ==
    executor \in {"create_account", "update_account"} =>
        \A i \in CallsTo("store") :
            /\ Keys(calls[i].data) \subseteq AllFields(calls[i].table)
            /\ empty_value_attributes(calls[i].data) = {}

\* The account of this type and identifier has been soft-deleted: its row is
\* in the table with status 'Inactive'.
SoftDeleted(st, ot, id) ==
    \E r \in Matching(st, ot, id) : r["status"] = Inactive

\* The step handles a request of the named executor for a soft-deleted
\* account, and the store answers its one call.
OnSoftDeleted(name) ==
    /\ executor' = name
    /\ request'.object_type \in DOMAIN store
    /\ SoftDeleted(store, request'.object_type, request'.identifier)
    /\ Len(calls') = 1
    /\ calls'[1].how = "ok"

====
